---- MODULE Spec2Model ----
(***************************************************************************)
(* Disk analyzer of ai-infra-monitor: the cleaner (backup, delete,         *)
(* rollback), the safety rules it relies on and the API handlers that      *)
(* drive it.                                                               *)
(*                                                                         *)
(* Paths are sequences of string tokens ("C:", "\", "Temp", "\", "a",      *)
(* ".tmp"); a token is the unit of the prefix and substring tests of the   *)
(* code (str.startswith, 'Temp' in path, os.path.splitext).                *)
(***************************************************************************)
EXTENDS Integers, Sequences, FiniteSets, TLC

\* ------------------------------------------------------------------ bounds
MaxRuns == 2        \* cleanup requests served
MaxCats == 2        \* categories named by one request
MaxItems == 2       \* file entries processed, over all requests
MaxListed == 101    \* entries the scan of one root returns
MaxIters == 4       \* iterations of the agent loop
MaxBackups == 3     \* entries of the backup root

\* the stored scans a request may name
ScanIds == {1}

\* ------------------------------------------------------- the host's files
S == "\\"

USERPROFILE == <<"C:", S, "Users", S, "u">>

TempDir == <<"C:", S, "Temp">>
Documents == USERPROFILE \o <<S, "Documents">>
Projects == USERPROFILE \o <<S, "Projects">>
\* what the environment variable TMP names on this host
Scratch == <<"C:", S, "ProgramData", S, "scratch">>
LocalAppData == USERPROFILE \o <<S, "AppData", S, "Local">>
ChromeCache ==
  LocalAppData \o <<S, "Google", S, "Chrome", S, "User Data", S, "Default",
                    S, "Cache">>
UpdateDownload == <<"C:", S, "Windows", S, "SoftwareDistribution", S, "Download">>
Explorer == LocalAppData \o <<S, "Microsoft", S, "Windows", S, "Explorer">>

\* The host's directory tree: path, what os.path.isfile / os.path.isdir
\* report for it ("other" exists but is neither), and the size os.stat gives.
NodeTable ==
  << [path |-> TempDir,                                   kind |-> "dir",   size |-> 0],
     [path |-> TempDir \o <<S, "a", ".tmp">>,             kind |-> "file",  size |-> 1],
     [path |-> TempDir \o <<S, "sub">>,                   kind |-> "dir",   size |-> 0],
     [path |-> TempDir \o <<S, "sub", S, "a", ".tmp">>,   kind |-> "file",  size |-> 2],
     [path |-> TempDir \o <<S, "a", "_1", ".tmp">>,       kind |-> "file",  size |-> 4],
     [path |-> TempDir \o <<S, "pipe">>,                  kind |-> "other", size |-> 16],
     [path |-> Documents,                                 kind |-> "dir",   size |-> 0],
     [path |-> Documents \o <<S, "proj">>,                kind |-> "dir",   size |-> 0],
     [path |-> Documents \o <<S, "proj", S, "node_modules">>,
                                                          kind |-> "dir",   size |-> 0],
     [path |-> Documents \o <<S, "proj", S, "node_modules", S, "m", ".js">>,
                                                          kind |-> "file",  size |-> 8],
     [path |-> Projects,                                  kind |-> "dir",   size |-> 0],
     [path |-> Projects \o <<S, "app">>,                  kind |-> "dir",   size |-> 0],
     [path |-> Projects \o <<S, "app", S, "node_modules">>,
                                                          kind |-> "dir",   size |-> 0],
     [path |-> Projects \o <<S, "app", S, "node_modules", S, "m", ".js">>,
                                                          kind |-> "file",  size |-> 32],
     [path |-> Scratch,                                   kind |-> "dir",   size |-> 0],
     [path |-> Scratch \o <<S, "b", ".tmp">>,             kind |-> "file",  size |-> 1],
     [path |-> Scratch \o <<S, "Cache">>,                 kind |-> "dir",   size |-> 0],
     [path |-> Scratch \o <<S, "Cache", S, "c", ".tmp">>, kind |-> "file",  size |-> 2],
     [path |-> ChromeCache,                               kind |-> "dir",   size |-> 0],
     [path |-> ChromeCache \o <<S, "f_1">>,               kind |-> "file",  size |-> 4],
     [path |-> UpdateDownload,                            kind |-> "dir",   size |-> 0],
     [path |-> UpdateDownload \o <<S, "d1">>,             kind |-> "dir",   size |-> 0],
     [path |-> UpdateDownload \o <<S, "d1", S, "d2">>,    kind |-> "dir",   size |-> 0],
     [path |-> UpdateDownload \o <<S, "d1", S, "d2", S, "d3">>,
                                                          kind |-> "dir",   size |-> 0],
     [path |-> UpdateDownload \o <<S, "d1", S, "d2", S, "d3", S, "d4">>,
                                                          kind |-> "dir",   size |-> 0],
     [path |-> UpdateDownload \o <<S, "d1", S, "d2", S, "d3", S, "d4", S, "d5">>,
                                                          kind |-> "dir",   size |-> 0],
     [path |-> UpdateDownload \o <<S, "d1", S, "d2", S, "d3", S, "d4", S, "d5",
                                    S, "u", ".cab">>,     kind |-> "file",  size |-> 8],
     [path |-> Explorer,                                  kind |-> "dir",   size |-> 0],
     [path |-> Explorer \o <<S, "thumbcache", "_256", ".db">>,
                                                          kind |-> "file",  size |-> 1],
     [path |-> Explorer \o <<S, "desktop", ".ini">>,      kind |-> "file",  size |-> 2],
     [path |-> Explorer \o <<S, "t1">>,                   kind |-> "dir",   size |-> 0],
     [path |-> Explorer \o <<S, "t1", S, "t2">>,          kind |-> "dir",   size |-> 0],
     [path |-> Explorer \o <<S, "t1", S, "t2", S, "t3">>, kind |-> "dir",   size |-> 0],
     [path |-> Explorer \o <<S, "t1", S, "t2", S, "t3", S, "t4">>,
                                                          kind |-> "dir",   size |-> 0],
     [path |-> Explorer \o <<S, "t1", S, "t2", S, "t3", S, "t4", S, "t5">>,
                                                          kind |-> "dir",   size |-> 0],
     [path |-> Explorer \o <<S, "t1", S, "t2", S, "t3", S, "t4", S, "t5",
                              S, "icons", ".db">>,        kind |-> "file",  size |-> 4],
     [path |-> TempDir \o <<S, "sub", S, "s2">>,          kind |-> "dir",   size |-> 0],
     [path |-> TempDir \o <<S, "sub", S, "s2", S, "s3">>, kind |-> "dir",   size |-> 0],
     [path |-> TempDir \o <<S, "sub", S, "s2", S, "s3", S, "s4">>,
                                                          kind |-> "dir",   size |-> 0],
     [path |-> TempDir \o <<S, "sub", S, "s2", S, "s3", S, "s4", S, "d", ".tmp">>,
                                                          kind |-> "file",  size |-> 1],
     [path |-> TempDir \o <<S, "sub", S, "s2", S, "s3", S, "s4", S, "s5">>,
                                                          kind |-> "dir",   size |-> 0],
     [path |-> TempDir \o <<S, "sub", S, "s2", S, "s3", S, "s4", S, "s5",
                             S, "e", ".tmp">>,            kind |-> "file",  size |-> 2],
     [path |-> Projects \o <<S, "app", S, "node_modules", S, "dist">>,
                                                          kind |-> "dir",   size |-> 0],
     [path |-> Projects \o <<S, "app", S, "node_modules", S, "dist", S, "d", ".js">>,
                                                          kind |-> "file",  size |-> 4] >>

Nodes == 1..Len(NodeTable)

PathOf(n) == NodeTable[n].path

None == <<>>

\* ------------------------------------------------------------ rules.py
CLEANUP_CATEGORIES ==
  {"temp_files", "browser_cache", "recycle_bin", "windows_update",
   "installers", "thumbnails", "dev_cache"}

PROTECTED_DIRECTORIES ==
  { <<"C:", S, "Windows", S, "System32">>,
    <<"C:", S, "Windows", S, "SysWOW64">>,
    <<"C:", S, "Program Files">>,
    <<"C:", S, "Program Files", " (x86)">>,
    <<"C:", S, "ProgramData">>,
    USERPROFILE \o <<S, "Documents">>,
    USERPROFILE \o <<S, "Pictures">>,
    USERPROFILE \o <<S, "Videos">>,
    USERPROFILE \o <<S, "Music">>,
    USERPROFILE \o <<S, "Desktop">> }

Cwd == <<"C:", S, "app">>

\* os.path.abspath: a relative path is joined to the working directory
abspath(path) ==
  IF Len(path) > 0 /\ path[1] = "C:" THEN path ELSE Cwd \o <<S>> \o path

\* str.startswith
startswith(path, prefix) ==
  /\ Len(path) >= Len(prefix)
  /\ SubSeq(path, 1, Len(prefix)) = prefix

\* 'Temp' in path  /  'Cache' in path
contains(path, tok) == \E i \in 1..Len(path) : path[i] = tok

is_path_protected(path) ==
  LET p == abspath(path)
  IN  \E d \in PROTECTED_DIRECTORIES :
         /\ startswith(p, d)
         /\ ~ (contains(p, "Temp") \/ contains(p, "Cache"))

\* get_category_by_name raises ValueError for an unregistered name
get_category_by_name(category_name) ==
  IF category_name \in CLEANUP_CATEGORIES THEN "ok" ELSE "ValueError"

\* ------------------------------------------------------ filesystem helpers
\* n and everything below it (what shutil.rmtree / shutil.copytree reach)
SubtreeOf ==
  [n \in Nodes |->
     {m \in Nodes : m = n \/ startswith(PathOf(m), PathOf(n) \o <<S>>)}]

Subtree(n) == SubtreeOf[n]

RECURSIVE SumSize(_)
SumSize(ns) ==
  IF ns = {} THEN 0
  ELSE LET n == CHOOSE x \in ns : TRUE
       IN  NodeTable[n].size + SumSize(ns \ {n})

\* the entries the stored scan lists per category: under the temp
\* directory regular files and a special file, for dev_cache the build
\* directories (one of them below Documents)
StoredFiles(c) ==
  CASE c = "temp_files" -> {2, 4, 5, 6}
    [] c = "dev_cache" -> {9, 13}
    [] OTHER -> {}

ItemIds == UNION {StoredFiles(c) : c \in {"temp_files", "dev_cache"}}

\* file_info['size'] as the scanner recorded it (a directory entry carries
\* the recursive size of its files)
ScanSize(n) ==
  IF NodeTable[n].kind = "dir"
  THEN SumSize({m \in Subtree(n) : NodeTable[m].kind = "file"})
  ELSE NodeTable[n].size

\* os.path.basename
RECURSIVE basename(_)
basename(path) ==
  IF ~ contains(path, S) THEN path
  ELSE basename(Tail(path))

ExtTokens == {".tmp", ".js", ".docx"}

\* os.path.splitext of a file name: <<name, ext>>
splitext(name) ==
  IF Len(name) > 1 /\ name[Len(name)] \in ExtTokens
  THEN <<SubSeq(name, 1, Len(name) - 1), <<name[Len(name)]>> >>
  ELSE <<name, <<>> >>

\* the names that may be requested: the registered ones a request uses
\* here, and one that is not registered
RequestNames == {"temp_files", "dev_cache", "bogus"}

\* --------------------------------------------------------------- state
VARIABLES
  now,                \* wall clock, whole seconds (strftime %Y%m%d_%H%M%S)
  fs,                 \* nodes of the host tree that exist
  backup_root_exists, \* <USERPROFILE>\.ai-infra-monitor\cleanup_backup
  backup_dirs,        \* backup directories scan_<id>_<timestamp> that exist
  backup_files,       \* what the backup directories hold
  cleaner,            \* the DiskCleaner instance of the running request
  pc,                 \* position of the request being served
  create_backup,      \* request.create_backup
  category_name,      \* category being cleaned
  cats_done,          \* categories of the request already iterated
  file_path,          \* entry being processed
  cleanup_operations, \* rows of the cleanup_operations table
  response,           \* what the last request answered
  ev,                 \* the last step taken on an entry
  tally,              \* per request: what happened to the supplied entries
  processed,          \* file entries processed so far, over all requests
  age,                \* days since the last access of each node
  denied,             \* the files os.path.getsize raises PermissionError for
  scan_pos,           \* categories scan_all_categories has been through
  results,            \* results of scan_all_categories, by category
  report,             \* what scan_all_categories returned
  listed,             \* per category and root, how many entries the scan of
                      \* the root returns, on a host given by its listing
  rule_path,          \* the path is_path_protected is asked about
  rule_answer,        \* what it answered
  sender,             \* the call of send_batch in progress
  agent,              \* the agent loop of run()
  keeper,             \* the backup root and the pass of cleanup_old_backups
  runs                \* two cleanup runs served at the same time

vars == <<now, fs, backup_root_exists, backup_dirs, backup_files, cleaner,
          pc, create_backup, category_name, cats_done, file_path,
          cleanup_operations, response, ev, tally, processed,
          age, denied, scan_pos, results, report, listed,
          rule_path, rule_answer, sender, agent, keeper, runs>>

scanVars == <<age, denied, scan_pos, results, report, listed>>
cleanerVars == <<now, backup_root_exists, backup_dirs, backup_files, cleaner,
                 pc, create_backup, category_name, cats_done, file_path,
                 cleanup_operations, response, ev, tally, processed>>

rulesVars == <<rule_path, rule_answer>>
\* the variables of what runs outside the disk cleaner and the scanner
sideVars == <<keeper, runs>>
remoteVars == <<rulesVars, sender, agent, sideVars>>

fsVars == <<fs, backup_root_exists, backup_dirs, backup_files>>
loopVars == <<create_backup, category_name, cats_done, file_path>>

NoEvent == [step |-> "none"]

NoResponse == [kind |-> "none", status |-> 0]

ZeroTally ==
  [supplied |-> 0, protected |-> 0, missing |-> 0, removed |-> {}]

NoReport == [total_size |-> 0, total_files |-> 0, done |-> FALSE]

\* the host is given by its directory tree, not by a listing
NotListed == [given |-> FALSE]

NoAnswer == [done |-> FALSE]

\* no call of send_batch, no agent loop
NoSender == [state |-> "none"]
NoAgent == [state |-> "none"]

\* the cleaner before its first request, and no scan running
InitCleaner ==
  /\ now = 0
  /\ backup_root_exists = FALSE
  /\ backup_dirs = {}
  /\ backup_files = {}
  /\ cleaner = None
  /\ pc = "idle"
  /\ create_backup = FALSE
  /\ category_name = "none"
  /\ cats_done = 0
  /\ file_path = 0
  /\ cleanup_operations = <<>>
  /\ response = NoResponse
  /\ ev = NoEvent
  /\ tally = ZeroTally
  /\ processed = 0

InitScanner ==
  /\ scan_pos = 0
  /\ results = <<>>
  /\ report = NoReport
  /\ listed = NotListed

\* is_path_protected not asked
InitRules ==
  /\ rule_path = <<>>
  /\ rule_answer = NoAnswer

NoKeeper == [state |-> "none"]
NoRuns == <<>>

\* no housekeeping pass, no pair of runs
InitSide ==
  /\ keeper = NoKeeper
  /\ runs = NoRuns

\* the agent is not running
InitAgent ==
  /\ sender = NoSender
  /\ agent = NoAgent

Init ==
  /\ InitCleaner
  /\ InitSide
  /\ InitScanner
  /\ InitRules
  /\ InitAgent
  /\ fs = Nodes
  /\ age = [n \in Nodes |-> 8]
  /\ denied = {}

\* --------------------------------------------------------- cleaner.py
\* DiskCleaner.__init__ with _get_backup_root: os.makedirs(exist_ok=True)
NewDiskCleaner(scan_id) ==
  [scan_id |-> scan_id, backup_path |-> None,
   files_deleted |-> 0, size_freed |-> 0, errors |-> <<>>]

\* f"scan_{self.scan_id}_{timestamp}" under the backup root
BackupPathFor(scan_id, t) == <<scan_id, t>>

\* os.path.exists(backup_dest) inside the backup directory of a category
DestExists(root, cat, name) ==
  \E e \in backup_files : e.root = root /\ e.cat = cat /\ e.name = name

\* f"{name}_{counter}{ext}" with name, ext = os.path.splitext(original_dest)
Suffixed(original_dest, counter) ==
  LET ne == splitext(original_dest)
  IN  ne[1] \o << "_" \o ToString(counter) >> \o ne[2]

\* the collision loop of _backup_item, entered with backup_dest taken
RECURSIVE NextFreeDest(_, _, _, _)
NextFreeDest(root, cat, original_dest, counter) ==
  LET backup_dest == Suffixed(original_dest, counter)
  IN  IF DestExists(root, cat, backup_dest)
      THEN NextFreeDest(root, cat, original_dest, counter + 1)
      ELSE backup_dest

\* the destination as it would be without the collision loop
BackupDestNoLoop(root, cat, item_path) == basename(item_path)

\* backup_dest as _backup_item computes it for item_path
BackupDest(root, cat, item_path) ==
  LET original_dest == basename(item_path)
  IN  IF DestExists(root, cat, original_dest)
      THEN NextFreeDest(root, cat, original_dest, 1)
      ELSE original_dest

\* regular files a copy of n holds (what os.walk of the backup will list)
CopiedFiles(n) ==
  Cardinality({m \in Subtree(n) \cap fs : NodeTable[m].kind = "file"})

\* perform_cleanup up to the first iteration of cleanup_categories: the
\* operation row is inserted as 'running', the DiskCleaner is constructed
\* (which creates the backup root), and with create_backup the backup
\* directory of the run is made.  t is what datetime.now() reads, to the
\* second: the second of the request before, or the next one
PerformCleanupBegin(scan_id, cb, t) ==
  /\ pc = "idle"
  /\ UNCHANGED <<scanVars, remoteVars>>
  /\ Len(cleanup_operations) < MaxRuns
  /\ t \in (IF cleanup_operations = <<>> THEN {now} ELSE {now, now + 1})
  /\ now' = t
  /\ cleanup_operations' = Append(cleanup_operations,
        [scan_id |-> scan_id, status |-> "running", backup_path |-> None])
  /\ backup_root_exists' = TRUE
  /\ cleaner' = [NewDiskCleaner(scan_id) EXCEPT
        !.backup_path = IF cb THEN BackupPathFor(scan_id, t) ELSE None]
  /\ backup_dirs' = IF cb THEN backup_dirs \cup {BackupPathFor(scan_id, t)}
                    ELSE backup_dirs
  /\ create_backup' = cb
  /\ pc' = "cat"
  /\ response' = NoResponse
  /\ tally' = ZeroTally
  /\ ev' = NoEvent
  /\ cats_done' = 0
  /\ category_name' = "none"
  /\ file_path' = 0
  /\ UNCHANGED <<fs, backup_files, processed>>

\* perform_cleanup when the cleaner call raises OSError: os.makedirs of the
\* backup root in the constructor (at = "root"), or os.makedirs of the backup
\* directory of the run (at = "backup_path"), which is outside every try of
\* cleanup_categories.  The row was inserted as 'running' and committed;
\* the handler catches psycopg2.Error only, so the exception leaves through
\* "finally: conn.close()" and the request ends with a server error
PerformCleanupRaise(scan_id, cb, at) ==
  /\ pc = "idle"
  /\ UNCHANGED <<scanVars, remoteVars>>
  /\ Len(cleanup_operations) < MaxRuns
  /\ at = "backup_path" => cb
  /\ cleanup_operations' = Append(cleanup_operations,
        [scan_id |-> scan_id, status |-> "running", backup_path |-> None])
  /\ backup_root_exists' = IF at = "root" THEN backup_root_exists ELSE TRUE
  /\ response' = [kind |-> "cleanup", status |-> 500]
  /\ ev' = NoEvent
  /\ UNCHANGED <<now, fs, backup_dirs, backup_files, cleaner, pc, loopVars,
                 tally, processed>>

\* one iteration of "for category_name in categories_to_clean"; the API
\* gives every requested name a key in files_by_category
NextCategory(c) ==
  /\ pc = "cat"
  /\ UNCHANGED <<scanVars, remoteVars>>
  /\ cats_done < MaxCats
  /\ IF get_category_by_name(c) = "ValueError"
     THEN /\ cleaner' = [cleaner EXCEPT
                 !.errors = Append(@, [kind |-> "category", name |-> c])]
          /\ cats_done' = cats_done + 1
          /\ UNCHANGED <<pc, category_name>>
     ELSE /\ pc' = "item"
          /\ category_name' = c
          /\ UNCHANGED <<cleaner, cats_done>>
  /\ ev' = NoEvent
  /\ UNCHANGED <<now, fsVars, create_backup, file_path, cleanup_operations,
                 response, tally, processed>>

\* the head of the iteration as it would be without the protection check
ItemDispositionUnprotected(n) ==
  IF n \notin fs THEN "skip_missing" ELSE "checked"

\* the head of the iteration as it would be without the existence check
ItemDispositionUnchecked(n) ==
  IF is_path_protected(PathOf(n)) THEN "skip_protected" ELSE "checked"

\* _clean_category, head of one iteration: the protection check and the
\* existence check, each ending the iteration with "continue"
ItemDisposition(n) ==
  IF is_path_protected(PathOf(n)) THEN "skip_protected"
  ELSE IF n \notin fs THEN "skip_missing"
  ELSE "checked"

\* one iteration as it would be if the removal came before the backup
NextItemDeleteFirst(n) ==
  LET d == ItemDisposition(n)
  IN  /\ pc = "item"
      /\ UNCHANGED <<scanVars, remoteVars>>
      /\ processed < MaxItems
      /\ n \in StoredFiles(category_name)
      /\ processed' = processed + 1
      /\ ev' = [step |-> d, item |-> n]
      /\ tally' = [tally EXCEPT
                     !.supplied = @ + 1,
                     !.protected = IF d = "skip_protected" THEN @ + 1 ELSE @,
                     !.missing = IF d = "skip_missing" THEN @ + 1 ELSE @]
      /\ IF d = "checked"
         THEN /\ file_path' = n
              /\ pc' = "delete"
         ELSE UNCHANGED <<pc, file_path>>
      /\ UNCHANGED <<now, fsVars, cleaner, create_backup, category_name,
                     cats_done, cleanup_operations, response>>

\* one iteration of "for file_info in files" up to the backup
NextItem(n) ==
  LET d == ItemDisposition(n)
  IN  /\ pc = "item"
      /\ UNCHANGED <<scanVars, remoteVars>>
      /\ processed < MaxItems
      /\ n \in StoredFiles(category_name)
      /\ processed' = processed + 1
      /\ ev' = [step |-> d, item |-> n]
      /\ tally' = [tally EXCEPT
                     !.supplied = @ + 1,
                     !.protected = IF d = "skip_protected" THEN @ + 1 ELSE @,
                     !.missing = IF d = "skip_missing" THEN @ + 1 ELSE @]
      /\ IF d = "checked"
         THEN /\ file_path' = n
              /\ pc' = IF create_backup /\ cleaner.backup_path # None
                       THEN "backup" ELSE "delete"
         ELSE UNCHANGED <<pc, file_path>>
      /\ UNCHANGED <<now, fsVars, cleaner, create_backup, category_name,
                     cats_done, cleanup_operations, response>>

\* the file list of the category is exhausted
EndItems ==
  /\ pc = "item"
  /\ UNCHANGED <<scanVars, remoteVars>>
  /\ pc' = "cat"
  /\ cats_done' = cats_done + 1
  /\ category_name' = "none"
  /\ ev' = NoEvent
  /\ UNCHANGED <<now, fsVars, cleaner, create_backup, file_path,
                 cleanup_operations, response, tally, processed>>

\* _backup_item as it would be without its try/except: a failed copy raises into
\* _clean_category, which records it and goes on to the next entry
BackupItemRaising(outcome) ==
  LET n == file_path
      root == cleaner.backup_path
      dest == BackupDest(root, category_name, PathOf(n))
      copies == NodeTable[n].kind \in {"file", "dir"}
      entry == [root |-> root, cat |-> category_name, name |-> dest,
                src |-> n, nfiles |-> CopiedFiles(n)]
  IN  /\ pc = "backup"
      /\ UNCHANGED <<scanVars, remoteVars>>
      /\ backup_files' = IF copies /\ outcome # "fail"
                         THEN backup_files \cup {entry}
                         ELSE backup_files
      /\ ev' = [step |-> "backup", item |-> n, outcome |-> outcome,
                dest |-> dest, copied |-> (copies /\ outcome # "fail")]
      /\ IF outcome = "fail"
         THEN /\ pc' = "item"
              /\ file_path' = 0
              /\ cleaner' = [cleaner EXCEPT
                    !.errors = Append(@, [kind |-> "item", name |-> n])]
         ELSE /\ pc' = "delete"
              /\ UNCHANGED <<file_path, cleaner>>
      /\ UNCHANGED <<now, fs, backup_root_exists, backup_dirs, create_backup,
                     category_name, cats_done, cleanup_operations, response,
                     tally, processed>>

\* _backup_item: everything it does is inside try/except Exception, so no
\* outcome raises; with "fail" os.makedirs or the copy raised and nothing
\* is left at backup_dest
_backup_item(outcome) ==
  LET n == file_path
      root == cleaner.backup_path
      dest == BackupDest(root, category_name, PathOf(n))
      copies == NodeTable[n].kind \in {"file", "dir"}
      entry == [root |-> root, cat |-> category_name, name |-> dest,
                src |-> n, nfiles |-> CopiedFiles(n)]
  IN  /\ pc = "backup"
      /\ UNCHANGED <<scanVars, remoteVars>>
      /\ backup_files' = IF copies /\ outcome # "fail"
                         THEN backup_files \cup {entry}
                         ELSE backup_files
      /\ ev' = [step |-> "backup", item |-> n, outcome |-> outcome,
                dest |-> dest, copied |-> (copies /\ outcome # "fail")]
      /\ pc' = "delete"
      /\ UNCHANGED <<now, fs, backup_root_exists, backup_dirs, cleaner,
                     loopVars, cleanup_operations, response, tally,
                     processed>>

\* what os.remove / shutil.rmtree leave of the tree; with "fail" the
\* removal raised
AfterDelete(n, outcome) ==
  CASE NodeTable[n].kind = "file" /\ outcome = "ok" -> fs \ {n}
    [] NodeTable[n].kind = "dir" /\ outcome = "ok" -> fs \ Subtree(n)
    [] OTHER -> fs

\* self.files_deleted += 1; self.size_freed += file_info.get('size', 0)
Counted(cl, n) ==
  [cl EXCEPT !.files_deleted = @ + 1, !.size_freed = @ + ScanSize(n)]

\* the except branch as it would be if it counted the failed entry as deleted
ItemErrorCounted(cl, n) ==
  [cl EXCEPT !.errors = Append(@, [kind |-> "item", name |-> n]),
             !.files_deleted = @ + 1, !.size_freed = @ + ScanSize(n)]

\* except Exception as e: self.errors.append(f"Error cleaning {file_path}: {e}")
ItemError(cl, n) ==
  [cl EXCEPT !.errors = Append(@, [kind |-> "item", name |-> n])]

\* _clean_category, rest of one iteration: _delete_file for a regular file,
\* _delete_directory for a directory, neither for anything else; both
\* re-raise what the removal raised
DeleteItem(outcome) ==
  LET n == file_path
      kind == NodeTable[n].kind
      raised == outcome # "ok"
  IN  /\ pc = "delete"
      /\ UNCHANGED <<scanVars, remoteVars>>
      /\ outcome = "fail" => kind \in {"file", "dir"}
      /\ fs' = AfterDelete(n, outcome)
      /\ cleaner' = IF raised THEN ItemError(cleaner, n)
                    ELSE Counted(cleaner, n)
      /\ tally' = [tally EXCEPT !.removed = @ \cup (ItemIds \cap (fs \ fs'))]
      /\ ev' = [step |-> "delete", item |-> n, outcome |-> outcome,
                backup |-> IF ev.step = "backup" THEN ev.outcome ELSE "none"]
      /\ pc' = "item"
      /\ file_path' = 0
      /\ UNCHANGED <<now, backup_root_exists, backup_dirs, backup_files,
                     create_backup, category_name, cats_done,
                     cleanup_operations, response, processed>>

\* the dictionary cleanup_categories returns when its loop ends here
CleanupResult ==
  [files_deleted |-> cleaner.files_deleted, size_freed |-> cleaner.size_freed,
   backup_path |-> cleaner.backup_path, errors |-> cleaner.errors]

\* cleanup_categories returns CleanupResult and perform_cleanup records it
\* in the operation row and answers with it
CleanupReturn ==
  /\ pc = "cat"
  /\ UNCHANGED <<scanVars, remoteVars>>
  /\ response' = [kind |-> "cleanup", status |-> 200]
  /\ cleanup_operations' =
       [cleanup_operations EXCEPT ![Len(cleanup_operations)] =
          [@ EXCEPT !.status = "completed",
                    !.backup_path = cleaner.backup_path]]
  /\ pc' = "idle"
  /\ cleaner' = None
  /\ ev' = NoEvent
  /\ create_backup' = FALSE
  /\ category_name' = "none"
  /\ cats_done' = 0
  /\ file_path' = 0
  /\ tally' = ZeroTally
  /\ UNCHANGED <<now, fsVars, processed>>

\* DiskCleaner.rollback on the backup directory: counts the regular files
\* os.walk finds there ("Would restore"), touches nothing
rollback(backup_path) ==
  IF backup_path = None \/ backup_path \notin backup_dirs
  THEN [kind |-> "rollback", status |-> 500, error |-> "ValueError"]
  ELSE [kind |-> "rollback", status |-> 200,
        backup_path |-> backup_path,
        files_restored |->
          LET RECURSIVE Count(_)
              Count(es) == IF es = {} THEN 0
                           ELSE LET e == CHOOSE x \in es : TRUE
                                IN  e.nfiles + Count(es \ {e})
          IN  Count({e \in backup_files : e.root = backup_path}),
        errors |-> <<>>]

\* perform_rollback as it would be if a rollback used up the backup it
\* was run on
PerformRollbackConsuming(operation_id) ==
  /\ pc = "idle"
  /\ UNCHANGED <<scanVars, remoteVars>>
  /\ ev' = [step |-> "rollback", item |-> operation_id]
  /\ UNCHANGED <<now, fs, backup_dirs, cleaner, loopVars,
                 cleanup_operations, pc, tally, processed>>
  /\ IF operation_id > Len(cleanup_operations)
     THEN /\ response' = [kind |-> "rollback", status |-> 404]
          /\ UNCHANGED <<backup_root_exists, backup_files>>
     ELSE IF cleanup_operations[operation_id].backup_path = None
     THEN /\ response' = [kind |-> "rollback", status |-> 400]
          /\ UNCHANGED <<backup_root_exists, backup_files>>
     ELSE /\ backup_root_exists' = TRUE
          /\ response' = rollback(cleanup_operations[operation_id].backup_path)
          /\ backup_files' =
               {e \in backup_files :
                  e.root # cleanup_operations[operation_id].backup_path}

\* perform_rollback: 404 for an unknown operation, 400 when the row holds
\* no backup_path, otherwise a DiskCleaner is constructed (which creates
\* the backup root) and rollback runs on the recorded backup_path
PerformRollback(operation_id) ==
  /\ pc = "idle"
  /\ UNCHANGED <<scanVars, remoteVars>>
  /\ ev' = [step |-> "rollback", item |-> operation_id]
  /\ UNCHANGED <<now, fs, backup_dirs, backup_files, cleaner, loopVars,
                 cleanup_operations, pc, tally, processed>>
  /\ IF operation_id > Len(cleanup_operations)
     THEN /\ response' = [kind |-> "rollback", status |-> 404]
          /\ UNCHANGED backup_root_exists
     ELSE IF cleanup_operations[operation_id].backup_path = None
     THEN /\ response' = [kind |-> "rollback", status |-> 400]
          /\ UNCHANGED backup_root_exists
     ELSE /\ backup_root_exists' = TRUE
          /\ response' = rollback(cleanup_operations[operation_id].backup_path)

\* the backup root is removed from outside the program (the operator
\* deletes <USERPROFILE>\.ai-infra-monitor); rollback guards against it
RemoveBackupRoot ==
  /\ pc = "idle"
  /\ UNCHANGED <<scanVars, remoteVars>>
  /\ backup_root_exists
  /\ backup_root_exists' = FALSE
  /\ backup_dirs' = {}
  /\ backup_files' = {}
  /\ ev' = NoEvent
  /\ UNCHANGED <<now, fs, cleaner, pc, loopVars, cleanup_operations,
                 response, tally, processed>>

Next ==
  \/ \E scan_id \in ScanIds, cb \in BOOLEAN, t \in 0..MaxRuns :
       PerformCleanupBegin(scan_id, cb, t)
  \/ \E scan_id \in ScanIds, cb \in BOOLEAN, at \in {"root", "backup_path"} :
       PerformCleanupRaise(scan_id, cb, at)
  \/ \E c \in RequestNames : NextCategory(c)
  \/ \E n \in ItemIds : NextItem(n)
  \/ EndItems
  \/ \E outcome \in {"ok", "fail"} : _backup_item(outcome)
  \/ \E outcome \in {"ok", "fail"} : DeleteItem(outcome)
  \/ CleanupReturn
  \/ \E operation_id \in 1..(MaxRuns + 1) : PerformRollback(operation_id)
  \/ RemoveBackupRoot

Spec == Init /\ [][Next]_vars

\* ------------------------------- cleaner.py, one DiskCleaner called again
\* cleanup_categories entered on an instance that exists: with create_backup
\* the backup directory of the call is made and kept in self.backup_path;
\* nothing else of the instance is assigned before the loop
CleanupCategoriesBegin(cb, t) ==
  /\ pc = "idle"
  /\ UNCHANGED <<scanVars, remoteVars>>
  /\ response.call < MaxRuns
  /\ t \in {now, now + 1}
  /\ now' = t
  /\ cleaner' = IF cb
                THEN [cleaner EXCEPT !.backup_path =
                                        BackupPathFor(cleaner.scan_id, t)]
                ELSE cleaner
  /\ backup_dirs' = IF cb
                    THEN backup_dirs \cup {BackupPathFor(cleaner.scan_id, t)}
                    ELSE backup_dirs
  /\ create_backup' = cb
  /\ pc' = "cat"
  /\ response' = [kind |-> "none", call |-> response.call + 1]
  /\ tally' = ZeroTally
  /\ ev' = NoEvent
  /\ cats_done' = 0
  /\ category_name' = "none"
  /\ file_path' = 0
  /\ UNCHANGED <<fs, backup_root_exists, backup_files, cleanup_operations,
                 processed>>

\* the loop over categories_to_clean ends and cleanup_categories returns
\* the dictionary built from the instance
CleanupCategoriesReturn ==
  /\ pc = "cat"
  /\ UNCHANGED <<scanVars, remoteVars>>
  /\ response' = [kind |-> "result", call |-> response.call,
                  result |-> CleanupResult]
  /\ pc' = "idle"
  /\ ev' = NoEvent
  /\ UNCHANGED <<now, fsVars, cleaner, loopVars, cleanup_operations, tally,
                 processed>>

\* a DiskCleaner has been constructed and no call made yet
InitReuse ==
  /\ InitScanner
  /\ InitRules
  /\ InitAgent
  /\ InitSide
  /\ fs = Nodes
  /\ age = [n \in Nodes |-> 8]
  /\ denied = {}
  /\ now = 0
  /\ backup_root_exists = TRUE
  /\ backup_dirs = {}
  /\ backup_files = {}
  /\ cleaner = NewDiskCleaner(1)
  /\ pc = "idle"
  /\ create_backup = FALSE
  /\ category_name = "none"
  /\ cats_done = 0
  /\ file_path = 0
  /\ cleanup_operations = <<>>
  /\ response = [kind |-> "none", call |-> 0]
  /\ ev = NoEvent
  /\ tally = ZeroTally
  /\ processed = 0

NextReuse ==
  \/ \E cb \in BOOLEAN, t \in 0..MaxRuns : CleanupCategoriesBegin(cb, t)
  \/ \E c \in RequestNames : NextCategory(c)
  \/ \E n \in ItemIds : NextItem(n)
  \/ EndItems
  \/ \E outcome \in {"ok", "fail"} : _backup_item(outcome)
  \/ \E outcome \in {"ok", "fail"} : DeleteItem(outcome)
  \/ CleanupCategoriesReturn

SpecReuse == InitReuse /\ [][NextReuse]_vars

\* ------------------- cleaner.py, two runs of _clean_category side by side
\* the list both runs are given: the regular files the stored scans list
\* for temp_files
PairFiles == {n \in StoredFiles("temp_files") : NodeTable[n].kind = "file"}

\* run r, head of one iteration of _clean_category (create_backup false):
\* the protection check and os.path.exists, on the tree as it is now
PairNextItem(r, n) ==
  LET d == ItemDisposition(n)
  IN  /\ runs # NoRuns
      /\ runs[r].pc = "item"
      /\ n \in PairFiles \ runs[r].done
      /\ Cardinality(runs[r].done) < MaxItems
      /\ runs' = [runs EXCEPT
                    ![r].done = @ \cup {n},
                    ![r].pc = IF d = "checked" THEN "delete" ELSE "item",
                    ![r].file_path = IF d = "checked" THEN n ELSE 0]
      /\ UNCHANGED <<fs, cleanerVars, scanVars, rulesVars, sender, agent,
                     keeper>>

\* run r, rest of the iteration: os.path.isfile and os.path.isdir on the
\* tree as it is now, the removal, and the counters; an entry that is
\* neither is counted without any removal, and with "fail" the removal
\* raised (the other run may have removed the file in between)
PairDeleteItem(r, outcome) ==
  LET n == runs[r].file_path
      there == n \in fs /\ NodeTable[n].kind \in {"file", "dir"}
  IN  /\ runs # NoRuns
      /\ runs[r].pc = "delete"
      /\ outcome = "fail" => there
      /\ fs' = IF there THEN AfterDelete(n, outcome) ELSE fs
      /\ runs' = [runs EXCEPT
                    ![r].pc = "item",
                    ![r].file_path = 0,
                    ![r].cleaner = IF outcome = "fail" THEN ItemError(@, n)
                                   ELSE Counted(@, n),
                    ![r].counted = IF outcome = "fail" THEN @
                                   ELSE @ \cup {n}]
      /\ UNCHANGED <<cleanerVars, scanVars, rulesVars, sender, agent, keeper>>

\* two requests are being served, each by its own DiskCleaner
InitPair ==
  /\ InitCleaner
  /\ InitScanner
  /\ InitRules
  /\ InitAgent
  /\ fs = Nodes
  /\ age = [n \in Nodes |-> 8]
  /\ denied = {}
  /\ keeper = NoKeeper
  /\ runs = [r \in {1, 2} |->
               [pc |-> "item", file_path |-> 0, done |-> {}, counted |-> {},
                cleaner |-> NewDiskCleaner(r)]]

NextPair ==
  \/ \E r \in {1, 2}, n \in PairFiles : PairNextItem(r, n)
  \/ \E r \in {1, 2}, outcome \in {"ok", "fail"} : PairDeleteItem(r, outcome)

SpecPair == InitPair /\ [][NextPair]_vars

\* --------------------------------------------------------- scanner.py
\* CLEANUP_CATEGORIES.items(): the registry in the order it is written
CategoryOrder ==
  <<"temp_files", "browser_cache", "recycle_bin", "windows_update",
    "installers", "thumbnails", "dev_cache">>

\* category.get_paths(): of the candidate roots of the category the ones
\* that exist; on this host TEMP is C:\Temp and TMP is
\* C:\ProgramData\scratch, Chrome is the one browser with a cache, and
\* C:\Windows\Temp, the recycle bin and the download folder do not exist
get_paths(c) ==
  LET candidates ==
        CASE c = "temp_files" -> <<1, 15>>
          [] c = "browser_cache" -> <<19>>
          [] c = "windows_update" -> <<21>>
          [] c = "thumbnails" -> <<28>>
          [] c = "dev_cache" -> <<7, 11>>
          [] OTHER -> <<>>
  IN  SelectSeq(candidates, LAMBDA n : n \in fs)

\* len(root.split(os.sep)) - len(base_path.split(os.sep))
Depth(root, base) ==
  Cardinality({i \in 1..Len(PathOf(root)) : PathOf(root)[i] = S})
    - Cardinality({i \in 1..Len(PathOf(base)) : PathOf(base)[i] = S})

\* os.walk's root of every entry: the directory it is listed in (the entry
\* itself where the tree has no node above it)
ParentOf ==
  [n \in Nodes |->
     LET above == {m \in Nodes : m # n /\ n \in Subtree(m)}
     IN  IF above = {} THEN n
         ELSE CHOOSE d \in above : \A m \in above : d \in Subtree(m)]

\* the directory n is listed in
Parent(n) == ParentOf[n]

IsDir(n) == n \in fs /\ NodeTable[n].kind = "dir"

\* the nodes of ns in the order os.walk comes to them (the order of the
\* table: a directory before its content)
RECURSIVE InOrder(_)
InOrder(ns) ==
  IF ns = {} THEN <<>>
  ELSE LET n == CHOOSE x \in ns : \A y \in ns : x <= y
       IN  <<n>> \o InOrder(ns \ {n})

\* the age test as it would be without the try/except around
\* os.path.getatime, going by the access time the file last had
IsFileOldEnoughUnguarded(n, days) == age[n] > days

\* is_file_old_enough: file_date < now - days, and False when os.path.getatime
\* raises (the file is gone)
is_file_old_enough(n, days) ==
  IF n \notin fs THEN FALSE ELSE age[n] > days

\* _scan_temp_files: dirs.clear() beyond depth 3; "continue" on a protected
\* root skips its files (and the depth test), not its subdirectories
TempPruned(root, base) ==
  ~ is_path_protected(PathOf(root)) /\ Depth(root, base) > 3

\* the directories os.walk(base) yields to _scan_temp_files
RECURSIVE TempWalked(_, _)
TempWalked(d, base) ==
  IF d = base THEN IsDir(base)
  ELSE /\ IsDir(d)
       /\ d \in Subtree(base)
       /\ TempWalked(Parent(d), base)
       /\ ~ TempPruned(Parent(d), base)

_scan_temp_files(base) ==
  LET roots == {d \in Nodes : TempWalked(d, base)
                               /\ ~ is_path_protected(PathOf(d))}
      found == {n \in fs : /\ n \notin {base}
                           /\ NodeTable[n].kind = "file"
                           /\ n \notin denied
                           /\ Parent(n) \in roots
                           /\ is_file_old_enough(n, 7)}
  IN  [i \in 1..Cardinality(found) |->
         [path |-> InOrder(found)[i], size |-> NodeTable[InOrder(found)[i]].size,
          is_safe |-> TRUE, risk_level |-> "low"]]

\* _scan_browser_cache: dirs.clear() beyond depth 2; "continue" on a
\* protected root skips its files (and the depth test), not its
\* subdirectories
BrowserPruned(root, base) ==
  ~ is_path_protected(PathOf(root)) /\ Depth(root, base) > 2

\* the directories os.walk(base) yields to _scan_browser_cache
RECURSIVE BrowserWalked(_, _)
BrowserWalked(d, base) ==
  IF d = base THEN IsDir(base)
  ELSE /\ IsDir(d)
       /\ d \in Subtree(base)
       /\ BrowserWalked(Parent(d), base)
       /\ ~ BrowserPruned(Parent(d), base)

_scan_browser_cache(base) ==
  LET roots == {d \in Nodes : BrowserWalked(d, base)
                               /\ ~ is_path_protected(PathOf(d))}
      found == {n \in fs : /\ n \notin {base}
                           /\ NodeTable[n].kind = "file"
                           /\ n \notin denied
                           /\ Parent(n) \in roots}
  IN  [i \in 1..Cardinality(found) |->
         [path |-> InOrder(found)[i], size |-> NodeTable[InOrder(found)[i]].size,
          is_safe |-> TRUE, risk_level |-> "low"]]

\* the directories os.walk(base) yields where the loop never touches dirs
\* (_scan_windows_update, _scan_thumbnails): every directory below base
Walked(d, base) ==
  /\ IsDir(base)
  /\ IsDir(d)
  /\ d \in Subtree(base)

\* _scan_windows_update: the regular files of every directory of the walk
\* that is_file_old_enough(days=30) accepts
_scan_windows_update(base) ==
  LET found == {n \in fs : /\ n \notin {base}
                           /\ NodeTable[n].kind = "file"
                           /\ n \notin denied
                           /\ Walked(Parent(n), base)
                           /\ is_file_old_enough(n, 30)}
  IN  [i \in 1..Cardinality(found) |->
         [path |-> InOrder(found)[i], size |-> NodeTable[InOrder(found)[i]].size,
          is_safe |-> TRUE, risk_level |-> "low"]]

\* filename.startswith('thumbcache') or filename.endswith('.db')
IsThumbnailName(filename) ==
  filename[1] = "thumbcache" \/ filename[Len(filename)] = ".db"

\* _scan_thumbnails: the regular files of every directory of the walk that
\* are named like a thumbnail cache
_scan_thumbnails(base) ==
  LET found == {n \in fs : /\ n \notin {base}
                           /\ NodeTable[n].kind = "file"
                           /\ n \notin denied
                           /\ Walked(Parent(n), base)
                           /\ IsThumbnailName(basename(PathOf(n)))}
  IN  [i \in 1..Cardinality(found) |->
         [path |-> InOrder(found)[i], size |-> NodeTable[InOrder(found)[i]].size,
          is_safe |-> TRUE, risk_level |-> "low"]]

cache_dirs == {"node_modules", "__pycache__", ".cache", ".next", "dist", "build"}

IsCacheDir(d) == basename(PathOf(d))[1] \in cache_dirs

\* the sum over os.walk(root) raises: os.path.getsize of a file below root
\* does
SizingRaises(root) ==
  \E m \in Subtree(root) \cap fs : NodeTable[m].kind = "file" /\ m \in denied

\* _scan_dev_cache: a directory named like a build/cache directory is one
\* entry with the size of the files below it, and dirs.clear(); when the
\* sizing raises, "continue" leaves it without entry, dirs as they are and
\* the depth test undone; dirs.clear() beyond depth 4 otherwise
DevPruned(root, base) ==
  IF IsCacheDir(root) THEN ~ SizingRaises(root)
  ELSE Depth(root, base) > 4

\* the directories os.walk(base) yields to _scan_dev_cache
RECURSIVE DevWalked(_, _)
DevWalked(d, base) ==
  IF d = base THEN IsDir(base)
  ELSE /\ IsDir(d)
       /\ d \in Subtree(base)
       /\ DevWalked(Parent(d), base)
       /\ ~ DevPruned(Parent(d), base)

_scan_dev_cache(base) ==
  LET found == {d \in Nodes : /\ DevWalked(d, base)
                               /\ IsCacheDir(d)
                               /\ ~ SizingRaises(d)}
  IN  [i \in 1..Cardinality(found) |->
         [path |-> InOrder(found)[i],
          size |-> SumSize({m \in Subtree(InOrder(found)[i]) \cap fs :
                              NodeTable[m].kind = "file"}),
          is_safe |-> FALSE, risk_level |-> "high"]]

\* the dispatch of _scan_category on category.name
ScanRoot(c, base) ==
  CASE c = "temp_files" -> _scan_temp_files(base)
    [] c = "browser_cache" -> _scan_browser_cache(base)
    [] c = "windows_update" -> _scan_windows_update(base)
    [] c = "thumbnails" -> _scan_thumbnails(base)
    [] c = "dev_cache" -> _scan_dev_cache(base)
    [] OTHER -> <<>>

RECURSIVE Concat(_)
Concat(seqs) ==
  IF seqs = <<>> THEN <<>> ELSE Head(seqs) \o Concat(Tail(seqs))

\* sum(...) of a list of numbers
RECURSIVE SumSeq(_)
SumSeq(seq) ==
  IF seq = <<>> THEN 0 ELSE Head(seq) + SumSeq(Tail(seq))

FileListCap == 100

\* the n entries the scan of root number r of category c returns on a
\* listed host, in discovery order; entry j has size j
Entries(c, r, n) ==
  [j \in 1..n |-> [path |-> <<c, r, j>>, size |-> j]]

\* category_files of every root of category.get_paths(), in order
RootResults(c) ==
  IF listed.given
  THEN [r \in 1..Len(listed.counts[c]) |-> Entries(c, r, listed.counts[c][r])]
  ELSE LET paths_to_scan == get_paths(c)
       IN  [i \in 1..Len(paths_to_scan) |-> ScanRoot(c, paths_to_scan[i])]

\* the dictionary _scan_category returns for the entries of all roots
\* with the file list cut in its place
CategoryResultPruned(c, files) ==
  LET kept == SubSeq(files, 1, IF Len(files) < FileListCap THEN Len(files)
                               ELSE FileListCap)
  IN  [name |-> c,
       files |-> kept,
       total_size |-> SumSeq([i \in DOMAIN kept |-> kept[i].size]),
       file_count |-> Len(kept),
       error |-> "none"]

\* the dictionary _scan_category returns for the entries of all roots:
\* files[:100], total_size and len(files) of the whole list
CategoryResult(c, files) ==
  [name |-> c,
   files |-> SubSeq(files, 1, IF Len(files) < FileListCap THEN Len(files)
                               ELSE FileListCap),
   total_size |-> SumSeq([i \in DOMAIN files |-> files[i].size]),
   file_count |-> Len(files),
   error |-> "none"]

\* _scan_category: the entries of all roots, the first 100 of them returned
_scan_category(c) == CategoryResult(c, Concat(RootResults(c)))

\* one iteration of scan_all_categories as it would be without its
\* try/except: what the scan of a category raises ends the loop
ScanCategoryAborting(outcome) ==
  /\ pc = "idle"
  /\ ~ report.done
  /\ scan_pos < Len(CategoryOrder)
  /\ IF outcome = "raise"
     THEN /\ scan_pos' = Len(CategoryOrder)
          /\ UNCHANGED results
     ELSE /\ scan_pos' = scan_pos + 1
          /\ results' = Append(results,
                              _scan_category(CategoryOrder[scan_pos + 1]))
  /\ UNCHANGED <<fs, age, denied, report, listed, cleanerVars,
                 remoteVars>>

\* one iteration of scan_all_categories; with "raise" the scan of the
\* category raised and the category gets the empty result with the error
ScanCategory(outcome) ==
  /\ pc = "idle"
  /\ ~ report.done
  /\ scan_pos < Len(CategoryOrder)
  /\ scan_pos' = scan_pos + 1
  /\ results' = Append(results,
        IF outcome = "raise"
        THEN [name |-> CategoryOrder[scan_pos + 1], files |-> <<>>,
              total_size |-> 0, file_count |-> 0, error |-> "raised"]
        ELSE _scan_category(CategoryOrder[scan_pos + 1]))
  /\ UNCHANGED <<fs, age, denied, report, listed, cleanerVars,
                 remoteVars>>

\* the return of scan_all_categories as it would be with the totals taken
\* from the returned file lists
ScanReturnPruned ==
  /\ pc = "idle"
  /\ ~ report.done
  /\ scan_pos = Len(CategoryOrder)
  /\ report' = [total_size |->
                  SumSeq([i \in DOMAIN results |->
                    SumSeq([k \in DOMAIN results[i].files |->
                              results[i].files[k].size])]),
                total_files |->
                  SumSeq([i \in DOMAIN results |-> Len(results[i].files)]),
                done |-> TRUE]
  /\ UNCHANGED <<fs, age, denied, scan_pos, results, listed, cleanerVars,
                 remoteVars>>

\* scan_all_categories returns the report with the totals
ScanReturn ==
  /\ pc = "idle"
  /\ ~ report.done
  /\ scan_pos = Len(CategoryOrder)
  /\ report' = [total_size |->
                  SumSeq([i \in DOMAIN results |-> results[i].total_size]),
                total_files |->
                  SumSeq([i \in DOMAIN results |-> results[i].file_count]),
                done |-> TRUE]
  /\ UNCHANGED <<fs, age, denied, scan_pos, results, listed, cleanerVars,
                 remoteVars>>

\* the host a scan runs on: any of these subtrees may be missing, and the
\* files of the temp directory were last accessed 6, 7 or 8 days ago
Removable == {4, 5, 9, 13}
AgedFiles == {2, 4}

\* the file of a build directory whose size may be refused
Unreadable == {14}

\* days since the last access of the other files: the update package was
\* downloaded long ago
LastAccess == [n \in Nodes |-> IF n = 27 THEN 31 ELSE 8]

InitScan ==
  /\ InitCleaner
  /\ InitSide
  /\ InitScanner
  /\ InitRules
  /\ InitAgent
  /\ \E gone \in SUBSET Removable :
       fs = Nodes \ UNION {Subtree(n) : n \in gone}
  /\ \E a \in [AgedFiles -> {6, 7, 8}] :
       age = [n \in Nodes |-> IF n \in AgedFiles THEN a[n] ELSE LastAccess[n]]
  /\ \E dn \in SUBSET Unreadable : denied = dn

NextScan ==
  \/ \E outcome \in {"ok", "raise"} : ScanCategory(outcome)
  \/ ScanReturn

SpecScan == InitScan /\ [][NextScan]_vars

\* hosts given by their listing: the temp directories hold up to a few
\* entries more than the cap of the file list, spread over two roots, the
\* development folders none, a few, or more than the cap
ListedCounts ==
  { [c \in CLEANUP_CATEGORIES |->
       CASE c = "temp_files" -> t
         [] c = "dev_cache" -> d
         [] OTHER -> <<>>] :
    t \in { <<0>>, <<1, 2>>, <<FileListCap - 1, 1>>, <<FileListCap, 1>>,
            <<2, MaxListed>> },
    d \in { <<>>, <<3>>, <<MaxListed>> } }

InitList ==
  /\ InitCleaner
  /\ InitSide
  /\ InitRules
  /\ InitAgent
  /\ scan_pos = 0
  /\ results = <<>>
  /\ report = NoReport
  /\ fs = Nodes
  /\ age = [n \in Nodes |-> 8]
  /\ denied = {}
  /\ \E counts \in ListedCounts : listed = [given |-> TRUE, counts |-> counts]

SpecList == InitList /\ [][NextScan]_vars

\* ------------------------------------------------- rules.py, on its own
\* where the paths asked about start: the protected directories, and
\* directories that are not protected (a relative one among them)
PathBases ==
  PROTECTED_DIRECTORIES \cup
  { TempDir, Projects, <<"C:", S, "Windows">>, <<"notes">> }

\* how they go on: not at all, a file, below a directory named Temp or
\* Cache, below a directory named Templates, as a longer name of the last
\* segment (DocumentsOld), a file named Cache.db
PathTails ==
  { <<>>,
    <<S, "a", ".docx">>,
    <<S, "Temp", S, "a", ".tmp">>,
    <<S, "sub", S, "Cache">>,
    <<S, "Temp", "lates", S, "a", ".docx">>,
    <<"Old", S, "a", ".docx">>,
    <<S, "Cache", ".db">> }

PathInputs == {b \o t : b \in PathBases, t \in PathTails}

\* a call of is_path_protected(rule_path)
AskIsPathProtected ==
  /\ ~ rule_answer.done
  /\ rule_answer' = [done |-> TRUE, value |-> is_path_protected(rule_path)]
  /\ UNCHANGED <<rule_path, fs, cleanerVars, scanVars, sideVars, sender, agent>>

InitAsk ==
  /\ InitCleaner
  /\ InitSide
  /\ InitScanner
  /\ InitAgent
  /\ fs = Nodes
  /\ age = [n \in Nodes |-> 8]
  /\ denied = {}
  /\ rule_path \in PathInputs
  /\ rule_answer = NoAnswer

SpecRules == InitAsk /\ [][AskIsPathProtected]_vars

\* ------------------------------------------------------ agent/sender.py
max_retries == 3

\* what one client.post with raise_for_status and response.json() can come
\* to: a response whose JSON is returned, httpx.HTTPStatusError,
\* httpx.RequestError, or another exception (the body is not JSON)
PostOutcomes ==
  { [kind |-> "ok", what |-> "json"],
    [kind |-> "status_error", what |-> "500"],
    [kind |-> "status_error", what |-> "503"],
    [kind |-> "request_error", what |-> "timeout"],
    [kind |-> "request_error", what |-> "connect"],
    [kind |-> "other", what |-> "ValueError"] }

Retryable(o) == o.kind \in {"status_error", "request_error"}

\* send_batch(batch, backend_url) entered: retry_count = 0
SendBatchCalled(batch) ==
  [state |-> "loop", batch |-> batch, retry_count |-> 0, attempts |-> <<>>,
   result |-> None, error |-> None]

\* one pass of the while loop as it would be if a request error were not
\* retried
PostNoRetryOnRequestError(o) ==
  /\ sender.state = "loop"
  /\ sender.retry_count < max_retries
  /\ sender' =
       LET tried == [sender EXCEPT !.attempts = Append(@, o)]
       IN  CASE o.kind = "ok" ->
                  [tried EXCEPT !.state = "returned",
                                !.result = <<sender.batch, Len(tried.attempts)>>]
             [] o.kind = "status_error" ->
                  [tried EXCEPT !.retry_count = @ + 1,
                                !.state = IF sender.retry_count + 1 >= max_retries
                                          THEN "raised" ELSE "loop",
                                !.error = IF sender.retry_count + 1 >= max_retries
                                          THEN o ELSE None]
             [] OTHER -> [tried EXCEPT !.state = "raised", !.error = o]
  /\ UNCHANGED <<fs, cleanerVars, scanVars, sideVars, rulesVars, agent>>

\* one pass of the while loop of send_batch: the post, and what its
\* outcome leads to; the result is the JSON of this attempt's response
Post(o) ==
  /\ sender.state = "loop"
  /\ sender.retry_count < max_retries
  /\ sender' =
       LET tried == [sender EXCEPT !.attempts = Append(@, o)]
       IN  CASE o.kind = "ok" ->
                  [tried EXCEPT !.state = "returned",
                                !.result = <<sender.batch, Len(tried.attempts)>>]
             [] Retryable(o) ->
                  [tried EXCEPT !.retry_count = @ + 1,
                                !.state = IF sender.retry_count + 1 >= max_retries
                                          THEN "raised" ELSE "loop",
                                !.error = IF sender.retry_count + 1 >= max_retries
                                          THEN o ELSE None]
             [] OTHER -> [tried EXCEPT !.state = "raised", !.error = o]
  /\ UNCHANGED <<fs, cleanerVars, scanVars, sideVars, rulesVars, agent>>

\* the batches handed to send_batch
Batches == {"b1", "b2"}

InitSend ==
  /\ InitCleaner
  /\ InitSide
  /\ InitScanner
  /\ InitRules
  /\ fs = Nodes
  /\ age = [n \in Nodes |-> 8]
  /\ denied = {}
  /\ agent = NoAgent
  /\ \E b \in Batches : sender = SendBatchCalled(b)

NextSend == \E o \in PostOutcomes : Post(o)

SpecSend == InitSend /\ [][NextSend]_vars

\* --------------------------------------------------------- agent/run.py
\* the configuration run() reads from the environment, and dry_run
AgentConfigs ==
  [batch_max : {2, 3}, batch_timeout : {2, 3}, interval : {1, 2},
   dry_run : BOOLEAN]

\* run() up to "while True": empty buffer, timer started
RunStarted(cfg) ==
  [state |-> "running", cfg |-> cfg, buffer |-> <<>>, timer_start |-> 0,
   clock |-> 0, next |-> 1, iteration_count |-> 0,
   pending_processes |-> FALSE, flushed |-> <<>>]

\* the flush test as it would be with len(buffer) > batch_max
ShouldFlushStrict(buffer, elapsed, cfg) ==
  Len(buffer) > cfg.batch_max \/ elapsed >= cfg.batch_timeout

\* should_flush_size or should_flush_timeout
ShouldFlush(buffer, elapsed, cfg) ==
  Len(buffer) >= cfg.batch_max \/ elapsed >= cfg.batch_timeout

\* the buffer after a flush as it would be if a batch that could not be
\* sent were kept for the next flush
BufferKeptOnFailure(buffer, sent_ok) == IF sent_ok THEN <<>> ELSE buffer

\* buffer.clear() after the flush, outside the try around send_batch
BufferAfterFlush(buffer, sent_ok) == <<>>

\* one iteration of the loop: collect_once returns k samples, every third
\* iteration collects the processes, the flush test, the flush (the batch
\* printed with dry_run, else handed to send_batch, whose time is delay;
\* with sent_ok false send_batch raised after its retries, which is caught
\* and logged), and asyncio.sleep(interval)
AgentIteration(k, delay, sent_ok) ==
  LET cfg == agent.cfg
      samples == [i \in 1..k |-> agent.next + i - 1]
      buffer == agent.buffer \o samples
      count == agent.iteration_count + 1
      pending == IF count % 3 = 0 THEN TRUE ELSE agent.pending_processes
      elapsed == agent.clock - agent.timer_start
  IN  /\ agent.state = "running"
      /\ agent.iteration_count < MaxIters
      /\ IF ShouldFlush(buffer, elapsed, cfg)
         THEN /\ cfg.dry_run => sent_ok
              /\ agent' = [agent EXCEPT
                    !.next = @ + k,
                    !.iteration_count = count,
                    !.flushed = Append(@,
                        [samples |-> buffer, processes |-> pending,
                         how |-> IF cfg.dry_run THEN "printed" ELSE "sent",
                         ok |-> sent_ok]),
                    !.pending_processes = FALSE,
                    !.buffer = BufferAfterFlush(buffer, sent_ok),
                    !.timer_start = agent.clock + delay,
                    !.clock = agent.clock + delay + cfg.interval]
         ELSE /\ delay = 0
              /\ sent_ok
              /\ agent' = [agent EXCEPT
                    !.next = @ + k,
                    !.iteration_count = count,
                    !.pending_processes = pending,
                    !.buffer = buffer,
                    !.clock = agent.clock + cfg.interval]
      /\ UNCHANGED <<fs, cleanerVars, scanVars, sideVars, rulesVars, sender>>

InitRun ==
  /\ InitCleaner
  /\ InitSide
  /\ InitScanner
  /\ InitRules
  /\ fs = Nodes
  /\ age = [n \in Nodes |-> 8]
  /\ denied = {}
  /\ sender = NoSender
  /\ \E cfg \in AgentConfigs : agent = RunStarted(cfg)

NextRun ==
  \E k \in {1, 2}, delay \in {0, 1}, sent_ok \in BOOLEAN :
     AgentIteration(k, delay, sent_ok)

SpecRun == InitRun /\ [][NextRun]_vars

\* ------------------------------------- cleaner.py, cleanup_old_backups
\* the entries of the backup root: a directory or a plain file, last
\* modified so many days ago
RootEntries ==
  [kind : {"dir", "file"}, mtime_age : {29, 30, 31}]

\* the age test as it would be with the cutoff day included
IsOldBackupInclusive(item, days_to_keep) == item.mtime_age >= days_to_keep

\* dir_time < cutoff_time, with cutoff_time = now - days_to_keep days
IsOldBackup(item, days_to_keep) == item.mtime_age > days_to_keep

\* cleanup_old_backups up to os.listdir(self.backup_root); with "fail" the
\* listing raised, which "except Exception" logs, and the call returns
CleanupOldBackupsBegin(days_to_keep, outcome) ==
  /\ keeper.state = "new"
  /\ keeper' = [keeper EXCEPT
                  !.days_to_keep = days_to_keep,
                  !.state = IF outcome = "fail" THEN "returned" ELSE "listing",
                  !.error = (outcome = "fail")]
  /\ UNCHANGED <<fs, cleanerVars, scanVars, rulesVars, sender, agent, runs>>

\* one iteration of "for item in os.listdir(...)": a plain file is passed
\* over, a directory is removed when it is old; with "fail" os.path.getmtime
\* or shutil.rmtree raised, which ends the loop and the call
CleanupOldBackupsItem(outcome) ==
  LET i == keeper.pos + 1
      item == keeper.items[i]
  IN  /\ keeper.state = "listing"
      /\ keeper.pos < Len(keeper.items)
      /\ outcome = "fail" => item.kind = "dir"
      /\ keeper' =
           IF item.kind # "dir" THEN [keeper EXCEPT !.pos = i]
           ELSE IF outcome = "fail"
                THEN [keeper EXCEPT !.state = "returned", !.error = TRUE]
           ELSE IF IsOldBackup(item, keeper.days_to_keep)
                THEN [keeper EXCEPT !.pos = i, !.left = @ \ {i}]
           ELSE [keeper EXCEPT !.pos = i]
      /\ UNCHANGED <<fs, cleanerVars, scanVars, rulesVars, sender, agent, runs>>

\* the listing is exhausted: cleanup_old_backups returns None
CleanupOldBackupsReturn ==
  /\ keeper.state = "listing"
  /\ keeper.pos = Len(keeper.items)
  /\ keeper' = [keeper EXCEPT !.state = "returned"]
  /\ UNCHANGED <<fs, cleanerVars, scanVars, rulesVars, sender, agent, runs>>

\* a DiskCleaner over a backup root that holds MaxBackups entries
InitOld ==
  /\ InitCleaner
  /\ InitScanner
  /\ InitRules
  /\ InitAgent
  /\ fs = Nodes
  /\ age = [n \in Nodes |-> 8]
  /\ denied = {}
  /\ runs = NoRuns
  /\ \E items \in [1..MaxBackups -> RootEntries] :
       keeper = [state |-> "new", items |-> items, left |-> 1..MaxBackups,
                 pos |-> 0, days_to_keep |-> 0, error |-> FALSE]

NextOld ==
  \/ \E days_to_keep \in {0, 30}, outcome \in {"ok", "fail"} :
       CleanupOldBackupsBegin(days_to_keep, outcome)
  \/ \E outcome \in {"ok", "fail"} : CleanupOldBackupsItem(outcome)
  \/ CleanupOldBackupsReturn

SpecOld == InitOld /\ [][NextOld]_vars

\* ---------------------------------------------------------------- claims
InRun == pc \in {"cat", "item", "backup", "delete"}

\* the entries of errors that _clean_category appended
ItemErrors == SelectSeq(cleaner.errors, LAMBDA e : e.kind = "item")

RECURSIVE SumScanSize(_)
SumScanSize(ns) ==
  IF ns = {} THEN 0
  ELSE LET n == CHOOSE x \in ns : TRUE
       IN  ScanSize(n) + SumScanSize(ns \ {n})

\* C1: whenever cleanup_categories can return, files_deleted is the number
\* of supplied entries this run removed from disk and size_freed is the sum
\* of their scan-time sizes.
C1_CountersMatchDisk ==
  pc = "cat" =>
    /\ CleanupResult.files_deleted = Cardinality(tally.removed)
    /\ CleanupResult.size_freed = SumScanSize(tally.removed)

\* the entries a stored scan can supply whose path is protected, and what
\* lies at and below them
ProtectedItems == {n \in ItemIds : is_path_protected(PathOf(n))}
ProtectedTrees == UNION {Subtree(n) : n \in ProtectedItems}

\* C2: a supplied entry whose path is protected is never removed, never
\* copied into a backup and never counted, and the other entries of the
\* run are processed: every supplied entry that is neither protected nor
\* vanished is counted or recorded as an error.
C2_ProtectedSkippedOthersProcessed ==
  /\ ProtectedTrees \subseteq fs
  /\ \A e \in backup_files : e.src \notin ProtectedItems
  /\ InRun =>
       /\ tally.removed \cap ProtectedItems = {}
       /\ cleaner.files_deleted + Len(ItemErrors)
            + (IF pc \in {"backup", "delete"} THEN 1 ELSE 0)
          = tally.supplied - tally.protected - tally.missing

\* one protected entry and one ordinary file of the same category, the
\* ordinary one deleted: files_deleted = 1
C2_Witness ==
  /\ pc = "item"
  /\ cats_done = 0
  /\ tally.supplied = 2
  /\ tally.protected = 1
  /\ cleaner.files_deleted = 1
  /\ Cardinality(tally.removed) = 1

\* C4: after a successful rollback of a cleanup, every entry that was
\* backed up by it exists again at its original path.
C4_RollbackRestores ==
  (response.kind = "rollback" /\ response.status = 200) =>
    \A e \in backup_files :
      e.root = response.backup_path => e.src \in fs

\* C5: a rollback that fails because no backup_path was recorded (400) or
\* because the recorded one no longer exists (ValueError) changes nothing
\* on the filesystem, the construction of the DiskCleaner included.
C5_FailedRollbackMutatesNothing ==
  [][ (ev'.step = "rollback" /\ response'.status \in {400, 500})
        => UNCHANGED fsVars ]_vars

\* C6: when the backup copy of an entry fails, nothing is appended to
\* errors, the entry goes on to its delete, and a delete that does not
\* raise removes it, counts it and leaves the loop at the next entry.
C6_BackupFailureDoesNotBlock ==
  [][ /\ (pc = "backup" /\ ev'.step = "backup" /\ ev'.outcome = "fail") =>
           /\ pc' = "delete"
           /\ file_path' = file_path
           /\ cleaner' = cleaner
      /\ (pc = "delete" /\ ev'.step = "delete" /\ ev'.backup = "fail"
            /\ ev'.outcome = "ok") =>
           /\ NodeTable[file_path].kind \in {"file", "dir"} => file_path \notin fs'
           /\ cleaner'.files_deleted = cleaner.files_deleted + 1
           /\ cleaner'.size_freed = cleaner.size_freed + ScanSize(file_path)
           /\ cleaner'.errors = cleaner.errors
           /\ pc' = "item" ]_vars

\* an entry whose backup failed has been deleted and counted, no error
C6_Witness ==
  /\ ev.step = "delete"
  /\ ev.backup = "fail"
  /\ ev.outcome = "ok"
  /\ ev.item \notin fs
  /\ cleaner.files_deleted >= 1
  /\ cleaner.errors = <<>>

\* C7: when the delete of an entry raises, exactly one error for that entry
\* is appended, the counters stay, and the loop goes on with the next entry
\* of the same category (and so to the later categories).
C7_DeleteFailureIsolated ==
  [][ (pc = "delete" /\ ev'.step = "delete" /\ ev'.outcome = "fail") =>
        /\ cleaner'.errors =
             Append(cleaner.errors, [kind |-> "item", name |-> file_path])
        /\ cleaner'.files_deleted = cleaner.files_deleted
        /\ cleaner'.size_freed = cleaner.size_freed
        /\ pc' = "item"
        /\ category_name' = category_name
        /\ cats_done' = cats_done ]_vars

\* after a failed delete in the first category, an entry of the second
\* category has been deleted and counted
C7_Witness ==
  /\ pc = "item"
  /\ cats_done = 1
  /\ Len(cleaner.errors) = 1
  /\ cleaner.errors[1].kind = "item"
  /\ cleaner.errors[1].name \in fs
  /\ ev.step = "delete"
  /\ ev.outcome = "ok"
  /\ cleaner.files_deleted = 1

\* C8: an unprotected entry that does not exist when it is processed leaves
\* the counters, the errors and the disk as they were, and a run all of
\* whose entries have vanished reports files_deleted = 0 and no error for
\* an entry.
C8_VanishedContributesNothing ==
  /\ [][ (pc = "item" /\ tally'.supplied = tally.supplied + 1
            /\ ~ is_path_protected(PathOf(ev'.item)) /\ ev'.item \notin fs) =>
           /\ cleaner' = cleaner
           /\ pc' = "item"
           /\ UNCHANGED fsVars ]_vars
  /\ [](InRun /\ tally.missing = tally.supplied =>
           /\ cleaner.files_deleted = 0
           /\ cleaner.size_freed = 0
           /\ Len(ItemErrors) = 0)

\* the second request names an entry the first one removed: nothing counted
C8_Witness ==
  /\ Len(cleanup_operations) = 2
  /\ pc = "item"
  /\ ev.step = "skip_missing"
  /\ ev.item \notin fs
  /\ tally.supplied = 1
  /\ tally.missing = 1
  /\ cleaner.files_deleted = 0
  /\ cleaner.errors = <<>>

\* the names _backup_item can give the copy of n: name, name_1, name_2, ...
\* with the suffix before the extension
DestNames(n) ==
  {basename(PathOf(n))} \cup
  {Suffixed(basename(PathOf(n)), k) : k \in 1..MaxItems}

DestNamesOf == [n \in ItemIds |-> DestNames(n)]

\* C9: the copies kept in one category directory of a backup have pairwise
\* distinct destinations, each named name, name_1, name_2, ... after its
\* entry, and a copy is only ever written to a destination that was free.
C9_DistinctBackupDestinations ==
  /\ [](\A e1, e2 \in backup_files :
          (e1.root = e2.root /\ e1.cat = e2.cat /\ e1.name = e2.name)
             => e1 = e2)
  /\ [](\A e \in backup_files : e.name \in DestNamesOf[e.src])
  /\ [][ (pc = "backup" /\ ev'.step = "backup" /\ ev'.copied) =>
           /\ ~ DestExists(cleaner.backup_path, category_name, ev'.dest)
           /\ backup_files \subseteq backup_files' ]_vars

\* two entries with the same base name copied into the same directory
C9_Witness ==
  \E e1, e2 \in backup_files :
    /\ e1 # e2
    /\ e1.root = e2.root
    /\ e1.cat = e2.cat
    /\ basename(PathOf(e1.src)) = basename(PathOf(e2.src))
    /\ e1.name = basename(PathOf(e1.src))
    /\ e2.name = Suffixed(basename(PathOf(e2.src)), 1)

\* the backup directories of the requests served so far, the running one
\* included
BackupPathsUsed ==
  [i \in DOMAIN cleanup_operations |->
     IF i = Len(cleanup_operations) /\ InRun THEN cleaner.backup_path
     ELSE cleanup_operations[i].backup_path]

\* C10: a run makes one backup directory, and two runs with create_backup
\* never get the same one.
C10_DistinctBackupRoots ==
  \A i, j \in DOMAIN cleanup_operations :
    (i # j /\ BackupPathsUsed[i] # None /\ BackupPathsUsed[j] # None)
       => BackupPathsUsed[i] # BackupPathsUsed[j]

\* C3: no entry of the result of any registered category has a protected
\* path.
C3_NoProtectedPathInResults ==
  \A i \in DOMAIN results :
    \A k \in DOMAIN results[i].files :
      ~ is_path_protected(PathOf(results[i].files[k].path))

\* the entries of errors that cleanup_categories appended for a category
CategoryErrors == SelectSeq(cleaner.errors, LAMBDA e : e.kind = "category")

\* C11: once cleanup_categories has met a category name that is not
\* registered, the operation does not proceed: from then on the run removes
\* nothing from disk.
C11_UnknownCategoryStopsRun ==
  [][ (InRun /\ CategoryErrors # <<>>) => fs' = fs ]_vars

\* C12: the status of an operation record only moves from running to
\* completed or failed, and no record is left in running once its request
\* has ended, the requests whose cleaner call raised included.
C12_NoRecordLeftRunning ==
  /\ [][ \A i \in DOMAIN cleanup_operations :
           cleanup_operations'[i].status # cleanup_operations[i].status =>
             /\ cleanup_operations[i].status = "running"
             /\ cleanup_operations'[i].status \in {"completed", "failed"} ]_vars
  /\ [](pc = "idle" =>
          \A i \in DOMAIN cleanup_operations :
            cleanup_operations[i].status \in {"completed", "failed"})

\* C13: the report has one result per registered category, in the order of
\* the registry; a category whose scan raised has the empty result with an
\* error, and every other category has the result of its own scan.
C13_FailedCategoryIsolated ==
  /\ Len(results) = scan_pos
  /\ report.done => Len(results) = Len(CategoryOrder)
  /\ \A i \in DOMAIN results :
       /\ results[i].name = CategoryOrder[i]
       /\ IF results[i].error # "none"
          THEN /\ results[i].files = <<>>
               /\ results[i].total_size = 0
               /\ results[i].file_count = 0
          ELSE results[i] = _scan_category(CategoryOrder[i])

\* the scan of temp_files raised, and the report still has dev_cache with
\* its two build directories
C13_Witness ==
  /\ report.done
  /\ results[1].name = "temp_files"
  /\ results[1].error = "raised"
  /\ results[7].name = "dev_cache"
  /\ results[7].error = "none"
  /\ results[7].file_count = 2

\* on a listed host: the number of entries the roots of category c hold,
\* and their sizes summed (a root with n entries of sizes 1..n)
ListedCount(c) == SumSeq(listed.counts[c])
ListedSize(c) ==
  SumSeq([r \in DOMAIN listed.counts[c] |->
            (listed.counts[c][r] * (listed.counts[c][r] + 1)) \div 2])

\* C14: the totals of a report are the sums of the categories' file_count
\* and total_size, and these are what the roots hold, uncut: a category
\* with more than 100 entries counts in full, a failed one counts 0.
C14_ReportTotalsUnpruned ==
  report.done =>
    /\ report.total_files =
         SumSeq([i \in DOMAIN results |-> results[i].file_count])
    /\ report.total_size =
         SumSeq([i \in DOMAIN results |-> results[i].total_size])
    /\ report.total_files =
         SumSeq([i \in DOMAIN results |->
                   IF results[i].error = "none"
                   THEN ListedCount(CategoryOrder[i]) ELSE 0])
    /\ report.total_size =
         SumSeq([i \in DOMAIN results |->
                   IF results[i].error = "none"
                   THEN ListedSize(CategoryOrder[i]) ELSE 0])

\* a report with a category of more than 100 entries, its list cut to 100,
\* and a failed category
C14_Witness ==
  /\ report.done
  /\ \E i \in DOMAIN results :
       /\ results[i].file_count > FileListCap
       /\ Len(results[i].files) = FileListCap
  /\ \E j \in DOMAIN results : results[j].error # "none"
  /\ report.total_files > FileListCap

\* C15: the files of a category result are the first min(100, n) of the n
\* entries of all roots in discovery order, file_count is n and total_size
\* the sum of the sizes of all n.
C15_FileListCutTotalsNot ==
  \A i \in DOMAIN results :
    results[i].error = "none" =>
      LET c == CategoryOrder[i]
          found == Concat([r \in DOMAIN listed.counts[c] |->
                             Entries(c, r, listed.counts[c][r])])
          n == Len(found)
          kept == IF n < FileListCap THEN n ELSE FileListCap
      IN  /\ Len(results[i].files) = kept
          /\ \A k \in 1..kept : results[i].files[k] = found[k]
          /\ results[i].file_count = n
          /\ n = ListedCount(c)
          /\ results[i].total_size = ListedSize(c)

\* more than 100 entries over two roots: the list is cut inside the second
\* root, the count is not
C15_Witness ==
  \E i \in DOMAIN results :
    /\ results[i].error = "none"
    /\ Len(listed.counts[CategoryOrder[i]]) = 2
    /\ results[i].file_count > FileListCap
    /\ Len(results[i].files) = FileListCap
    /\ results[i].files[FileListCap].path[2] = 2

\* the regular files _scan_temp_files comes to below C:\Temp
TempCandidates ==
  {n \in Subtree(1) \cap fs :
     NodeTable[n].kind = "file" /\ ~ is_path_protected(PathOf(n))}

\* C16: a file is in the temp_files result exactly when it was last
\* accessed 7 days ago or longer; one accessed exactly 7 days ago is in.
C16_SevenDaysIncluded ==
  (scan_pos >= 1 /\ results[1].error = "none") =>
    \A n \in TempCandidates :
      (\E k \in DOMAIN results[1].files : results[1].files[k].path = n)
        <=> age[n] >= 7

\* the thresholds is_file_old_enough is asked about: none, the 7 days of
\* the temp scan, the default 30
DayThresholds == {0, 7, 30}

RECURSIVE Segments(_)
Segments(path) ==
  IF path = <<>> THEN << <<>> >>
  ELSE LET rest == Segments(Tail(path))
       IN  IF Head(path) = S THEN << <<>> >> \o rest
           ELSE << <<Head(path)>> \o Head(rest) >> \o Tail(rest)

\* path is directory d or lies below it
LiesUnder(path, d) ==
  /\ Len(Segments(path)) >= Len(Segments(d))
  /\ SubSeq(Segments(path), 1, Len(Segments(d))) = Segments(d)

\* one of the segments of path is Temp or Cache
HasTempOrCacheSegment(path) ==
  \E i \in DOMAIN Segments(path) :
    Segments(path)[i] \in { <<"Temp">>, <<"Cache">> }

\* C18: is_path_protected answers true exactly for the paths that lie
\* under a protected directory and have no temp/cache segment.
C18_ProtectedExactly ==
  rule_answer.done =>
    (rule_answer.value <=>
       /\ \E d \in PROTECTED_DIRECTORIES : LiesUnder(abspath(rule_path), d)
       /\ ~ HasTempOrCacheSegment(abspath(rule_path)))

\* C19: send_batch posts at most 3 times; it returns the JSON of the first
\* attempt that succeeds, after attempts that all failed with a status or
\* request error; it raises the error of the third such failure, or at
\* once what is neither; and once it has returned or raised it posts
\* nothing more.
C19_SendBatchRetries ==
  /\ [](LET n == Len(sender.attempts)
            EarlierRetryable ==
              \A i \in 1..(n - 1) : Retryable(sender.attempts[i])
        IN  /\ n <= max_retries
            /\ sender.state = "loop" =>
                 /\ n < max_retries
                 /\ \A i \in 1..n : Retryable(sender.attempts[i])
            /\ sender.state = "returned" =>
                 /\ sender.attempts[n].kind = "ok"
                 /\ sender.result = <<sender.batch, n>>
                 /\ EarlierRetryable
            /\ sender.state = "raised" =>
                 /\ sender.error = sender.attempts[n]
                 /\ EarlierRetryable
                 /\ \/ sender.attempts[n].kind = "other"
                    \/ n = max_retries /\ Retryable(sender.attempts[n]))
  /\ [][ sender.state \in {"returned", "raised"} => sender' = sender ]_vars

\* a status error, a request error, then the post that succeeds
C19_Witness ==
  /\ sender.state = "returned"
  /\ Len(sender.attempts) = 3
  /\ sender.attempts[1].kind = "status_error"
  /\ sender.attempts[2].kind = "request_error"
  /\ sender.result = <<sender.batch, 3>>

\* the samples of the batches flushed so far, in order
RECURSIVE FlushedSamples(_)
FlushedSamples(batches) ==
  IF batches = <<>> THEN <<>>
  ELSE Head(batches).samples \o FlushedSamples(Tail(batches))

\* C20: an iteration flushes exactly when, with the new samples appended,
\* the buffer has batch_max samples or more, or batch_timeout or more has
\* passed since the last flush; the batch is the whole buffer (so every
\* sample collected is in one batch or still buffered, once, in order),
\* it goes to send_batch unless dry_run, and after it the buffer is empty
\* and the timer starts again.
C20_FlushWhenFullOrLate ==
  /\ [][ agent'.iteration_count = agent.iteration_count + 1 =>
           LET collected == [i \in 1..(agent'.next - agent.next) |->
                               agent.next + i - 1]
               buffered == agent.buffer \o collected
               due == \/ Len(buffered) >= agent.cfg.batch_max
                      \/ agent.clock - agent.timer_start
                           >= agent.cfg.batch_timeout
           IN  /\ due <=> Len(agent'.flushed) = Len(agent.flushed) + 1
               /\ due =>
                    /\ agent'.flushed[Len(agent'.flushed)].samples = buffered
                    /\ ~ agent.cfg.dry_run =>
                         agent'.flushed[Len(agent'.flushed)].how = "sent"
                    /\ agent'.buffer = <<>>
                    /\ agent'.timer_start >= agent.clock
                    /\ agent'.timer_start = agent'.clock - agent.cfg.interval
               /\ ~ due =>
                    /\ agent'.flushed = agent.flushed
                    /\ agent'.buffer = buffered
                    /\ agent'.timer_start = agent.timer_start ]_vars
  /\ [](FlushedSamples(agent.flushed) \o agent.buffer
          = [i \in 1..(agent.next - 1) |-> i])

\* one batch sent because the buffer was full, one sent with fewer samples
\* because the time was up
C20_Witness ==
  /\ ~ agent.cfg.dry_run
  /\ agent.buffer = <<>>
  /\ \E i, j \in DOMAIN agent.flushed :
       /\ Len(agent.flushed[i].samples) >= agent.cfg.batch_max
       /\ Len(agent.flushed[j].samples) < agent.cfg.batch_max
       /\ agent.flushed[i].how = "sent"
       /\ agent.flushed[j].how = "sent"

\* C21: with create_backup the steps of one item come in the order
\* protection check, existence check, backup attempt, removal.  A backup
\* attempt starts from the checks of the same item having passed and
\* removes nothing; a removal starts from the finished backup attempt of
\* the same item, writes nothing to the backup, and the copy the attempt
\* made is in the backup directory of the run when the removal happens
C21_BackupBeforeDelete ==
  [][ /\ (ev'.step = "backup" /\ ev.step # "backup") =>
           /\ ev.step = "checked" /\ ev.item = ev'.item
           /\ ~is_path_protected(PathOf(ev'.item))
           /\ ev'.item \in fs
           /\ fs' = fs
      /\ (ev'.step = "delete" /\ ev.step # "delete") =>
           /\ backup_files' = backup_files
           /\ create_backup =>
                /\ ev.step = "backup" /\ ev.item = ev'.item
                /\ ev.copied =>
                     \E e \in backup_files :
                        /\ e.root = cleaner.backup_path
                        /\ e.cat = category_name
                        /\ e.name = ev.dest
                        /\ e.src = ev'.item
           /\ ~create_backup => ev.step = "checked" /\ ev.item = ev'.item
    ]_vars

\* an item was removed after its copy was made
C21_Witness ==
  /\ ev.step = "delete" /\ ev.outcome = "ok" /\ ev.backup = "ok"
  /\ ev.item \notin fs
  /\ \E e \in backup_files : e.src = ev.item

\* the directories the walks of category c come from
WalkBases(c) == {get_paths(c)[i] : i \in DOMAIN get_paths(c)}

\* C22: in the temp_files and browser_cache walks a protected directory is
\* not descended into: the result holds no file of a protected directory
\* of the walked tree, nor of a directory below one
C22_ProtectedNotDescended ==
  \A i \in DOMAIN results :
    (results[i].name \in {"temp_files", "browser_cache"}
       /\ results[i].error = "none") =>
      \A k \in DOMAIN results[i].files :
        \A base \in WalkBases(results[i].name) :
          \A d \in Subtree(base) :
            (IsDir(d) /\ is_path_protected(PathOf(d))) =>
               results[i].files[k].path \notin Subtree(d)

\* C23: the walks of temp_files, windows_update and thumbnails are bounded
\* in depth: the directory of a reported file is at most 4 levels below
\* the root it was found from
C23_WalkDepthBounded ==
  \A i \in DOMAIN results :
    (results[i].name \in {"temp_files", "windows_update", "thumbnails"}
       /\ results[i].error = "none") =>
      \A k \in DOMAIN results[i].files :
        \A base \in WalkBases(results[i].name) :
          results[i].files[k].path \in Subtree(base) =>
            Depth(Parent(results[i].files[k].path), base) <= 4

\* the entries of result r whose path is d
EntriesFor(r, d) == {k \in DOMAIN r.files : r.files[k].path = d}

\* C24: in the dev_cache scan every directory with a build/cache name that
\* the walk of a root reaches is exactly one entry, with is_safe false,
\* risk_level high and the size of all files below it; no entry lies below
\* another one, and total_size counts no file twice
C24_CacheDirOneEntry ==
  \A i \in DOMAIN results :
    (results[i].name = "dev_cache" /\ results[i].error = "none") =>
      LET r == results[i]
          recorded == {r.files[k].path : k \in DOMAIN r.files}
      IN  /\ \A base \in WalkBases("dev_cache") :
               \A d \in Subtree(base) :
                 (DevWalked(d, base) /\ IsCacheDir(d)) =>
                    /\ Cardinality(EntriesFor(r, d)) = 1
                    /\ \A k \in EntriesFor(r, d) :
                         /\ r.files[k].is_safe = FALSE
                         /\ r.files[k].risk_level = "high"
                         /\ r.files[k].size =
                              SumSize({m \in Subtree(d) \cap fs :
                                         NodeTable[m].kind = "file"})
          /\ \A d \in recorded, e \in recorded :
               d # e => d \notin Subtree(e)
          /\ r.total_size =
               SumSize({m \in fs : /\ NodeTable[m].kind = "file"
                                   /\ \E d \in recorded : m \in Subtree(d)})

\* C25: cleanup_old_backups removes only subdirectories of the backup root
\* modified more than days_to_keep days ago, and all of them when nothing
\* raises; newer subdirectories and plain files stay; a failed listing or
\* removal ends the pass, and the call returns either way
C25_OldBackupsRemoved ==
  keeper.state # "none" =>
    /\ keeper.state \in {"new", "listing", "returned"}
    /\ \A i \in DOMAIN keeper.items :
         /\ i \notin keeper.left =>
              /\ keeper.items[i].kind = "dir"
              /\ keeper.items[i].mtime_age > keeper.days_to_keep
         /\ (keeper.state = "returned" /\ ~ keeper.error
               /\ keeper.items[i].kind = "dir"
               /\ keeper.items[i].mtime_age > keeper.days_to_keep) =>
              i \notin keeper.left
    /\ (keeper.state = "returned" /\ keeper.error) =>
         \E i \in keeper.left : i >= keeper.pos

\* a pass that removed an old directory and left a directory modified
\* exactly days_to_keep days ago and a plain file
C25_Witness ==
  /\ keeper.state = "returned" /\ ~ keeper.error
  /\ keeper.left # DOMAIN keeper.items
  /\ \E i \in keeper.left :
       /\ keeper.items[i].kind = "dir"
       /\ keeper.items[i].mtime_age = keeper.days_to_keep
  /\ \E i \in keeper.left :
       keeper.items[i].kind = "file" /\ keeper.items[i].mtime_age = 31

\* C26: what a call of cleanup_categories returns tells of that call only,
\* also on an instance called before: no more deletions than entries the
\* call was given, no freed size without a deletion, no more errors than
\* entries and categories of the call, and no backup_path when the call
\* was made without create_backup
C26_ResultOfThisCallOnly ==
  response.kind = "result" =>
    /\ response.result.files_deleted <= tally.supplied
    /\ response.result.files_deleted = 0 => response.result.size_freed = 0
    /\ Len(response.result.errors) <= tally.supplied + cats_done
    /\ ~ create_backup => response.result.backup_path = None

\* C27: of two runs working through the same list at the same time, at
\* most one counts a given regular file as deleted, and together they
\* count no more deletions than files were removed
C27_CountedByOneRun ==
  runs # NoRuns =>
    /\ \A n \in PairFiles :
         Cardinality({r \in DOMAIN runs : n \in runs[r].counted}) <= 1
    /\ runs[1].cleaner.files_deleted + runs[2].cleaner.files_deleted
         <= Cardinality(PairFiles \ fs)

\* the regular files in the tree of backup directory b
BackupTreeFiles(b) ==
  SumSeq([i \in 1..Cardinality({e \in backup_files : e.root = b}) |->
            LET es == {e \in backup_files : e.root = b}
                RECURSIVE Ordered(_)
                Ordered(xs) == IF xs = {} THEN <<>>
                               ELSE LET x == CHOOSE y \in xs : TRUE
                                    IN  <<x.nfiles>> \o Ordered(xs \ {x})
            IN  Ordered(es)[i]])

BatchesOf(s) ==
  {i \in DOMAIN agent.flushed :
     \E j \in DOMAIN agent.flushed[i].samples : agent.flushed[i].samples[j] = s}

\* C29: every sample collected by the loop is put in at most one batch, and
\* a sample of a batch is not in the buffer any more; after a flush the
\* buffer is empty also when send_batch raised, and the loop goes on
C29_SentAtMostOnce ==
  /\ [] (agent.state # "none" =>
           /\ agent.state = "running"
           /\ \A s \in 1..(agent.next - 1) :
                /\ Cardinality(BatchesOf(s)) <= 1
                /\ BatchesOf(s) # {} =>
                     \A j \in DOMAIN agent.buffer : agent.buffer[j] # s)
  /\ [][ Len(agent'.flushed) = Len(agent.flushed) + 1 =>
           /\ agent'.buffer = <<>>
           /\ agent'.state = "running"
           /\ agent'.iteration_count = agent.iteration_count + 1
       ]_vars

\* a batch whose send failed was followed by a batch that was sent, with
\* other samples
C29_Witness ==
  /\ agent.state = "running"
  /\ \E i, j \in DOMAIN agent.flushed :
       /\ i < j
       /\ agent.flushed[i].how = "sent" /\ ~ agent.flushed[i].ok
       /\ agent.flushed[j].how = "sent" /\ agent.flushed[j].ok
       /\ agent.flushed[i].samples # <<>>
       /\ agent.flushed[j].samples # <<>>

\* C30: a request served from a stored scan hands the cleaner, for each
\* category it names, only entries of the list stored for that category,
\* which has at most FileListCap entries; an entry counted as deleted adds
\* one to files_deleted and its stored size to size_freed; and a category
\* the stored scan does not hold adds nothing to the counters and no error
C30_StoredListBoundsCleanup ==
  /\ [] (pc \in {"backup", "delete"} =>
           /\ file_path \in StoredFiles(category_name)
           /\ Cardinality(StoredFiles(category_name)) <= FileListCap)
  /\ [][ (InRun /\ cleaner' # None /\ cleaner # None
            /\ cleaner'.files_deleted # cleaner.files_deleted) =>
           /\ cleaner'.files_deleted = cleaner.files_deleted + 1
           /\ cleaner'.size_freed = cleaner.size_freed + ScanSize(file_path)
           /\ file_path \in StoredFiles(category_name) ]_vars
  /\ [][ (pc = "cat" /\ pc' = "cat" /\ cats_done' = cats_done + 1) =>
           cleaner' = cleaner ]_vars

====
